---- MODULE Spec2Model ----
(***************************************************************************)
(* Water-outage change detection (driversti/mpwik).                        *)
(*                                                                         *)
(* Two programs are modelled: index.js (one category, key                  *)
(* LATEST_URSUS_OUTAGES) and the two-category handler (emergency, then     *)
(* planned).  Strings are sequences of UTF-16 code units, so that the      *)
(* default Array.prototype.sort order and === are computed, not assumed.   *)
(***************************************************************************)
EXTENDS Integers, Sequences, FiniteSets, TLC

(***************************************************************************)
(* Bounds of the model.                                                    *)
(***************************************************************************)
\* invocations of the handler in one behaviour
MaxInvocations == 3
\* rows of a generated district table in the parser specification
MaxRows == 3

(***************************************************************************)
(* String literals of the source, as code-unit sequences.                  *)
(***************************************************************************)
\* 'Warszawa URSUS'
DISTRICT_NAME == <<87, 97, 114, 115, 122, 97, 119, 97, 32, 85, 82, 83, 85, 83>>
\* '<strong>'
STRONG_OPEN == <<60, 115, 116, 114, 111, 110, 103, 62>>
\* '</strong>'
STRONG_CLOSE == <<60, 47, 115, 116, 114, 111, 110, 103, 62>>
\* ' (od '
OD == <<32, 40, 111, 100, 32>>
\* ' (z '
Z_FROM == <<32, 40, 122, 32>>
\* ' do '
DO_TO == <<32, 100, 111, 32>>
\* ')'
CLOSE == <<41>>
\* ', czas usuniecia nieznany)' (with e-ogonek, U+0119)
UNKNOWN == <<44, 32, 99, 122, 97, 115, 32, 117, 115, 117, 110, 105, 281, 99, 105, 97, 32, 110, 105, 101, 122, 110, 97, 110, 121, 41>>
\* ' - '
DASH == <<32, 45, 32>>
\* '- '
BULLET == <<45, 32>>
\* '\n'
NL == <<10>>
\* 'w toku'
W_TOKU == <<119, 32, 116, 111, 107, 117>>
\* 'w trakcie'
W_TRAKCIE == <<119, 32, 116, 114, 97, 107, 99, 105, 101>>
\* 'Wylaczenia planowane:\n\n' (with l-stroke U+0142, a-ogonek U+0105)
INDEX_HEADER == <<87, 121, 322, 261, 99, 122, 101, 110, 105, 97, 32, 112, 108, 97, 110, 111, 119, 97, 110, 101, 58, 10, 10>>
\* 'Wylaczenia awaryjne'
EMERGENCY_HEADER == <<87, 121, 322, 261, 99, 122, 101, 110, 105, 97, 32, 97, 119, 97, 114, 121, 106, 110, 101>>
\* 'Wylaczenia planowane'
PLANNED_HEADER == <<87, 121, 322, 261, 99, 122, 101, 110, 105, 97, 32, 112, 108, 97, 110, 111, 119, 97, 110, 101>>
\* '<b>'
B_OPEN == <<60, 98, 62>>
\* '</b>\n'
B_CLOSE_NL == <<60, 47, 98, 62, 10>>

(***************************************************************************)
(* String primitives of JavaScript used by the parsers.                    *)
(***************************************************************************)
\* the white space String.prototype.trim removes (tab, LF, CR, space)
IsSpace(c) == c \in {9, 10, 13, 32}

RECURSIVE TrimStart(_)
TrimStart(s) ==
    IF s = <<>> THEN <<>>
    ELSE IF IsSpace(Head(s)) THEN TrimStart(Tail(s)) ELSE s

RECURSIVE TrimEnd(_)
TrimEnd(s) ==
    IF s = <<>> THEN <<>>
    ELSE IF IsSpace(s[Len(s)]) THEN TrimEnd(SubSeq(s, 1, Len(s) - 1)) ELSE s

\* String.prototype.trim
Trim(s) == TrimEnd(TrimStart(s))

\* String.prototype.startsWith
StartsWith(s, p) == Len(s) >= Len(p) /\ SubSeq(s, 1, Len(p)) = p

\* a < b in the order of the default sort: by UTF-16 code units, a proper
\* prefix first
RECURSIVE StrLess(_, _)
StrLess(a, b) ==
    IF b = <<>> THEN FALSE
    ELSE IF a = <<>> THEN TRUE
    ELSE IF Head(a) # Head(b) THEN Head(a) < Head(b)
    ELSE StrLess(Tail(a), Tail(b))

\* insertion of one string into a sorted array, after its equals (stable)
RECURSIVE Insert(_, _)
Insert(x, sorted) ==
    IF sorted = <<>> THEN <<x>>
    ELSE IF StrLess(x, Head(sorted)) THEN <<x>> \o sorted
    ELSE <<Head(sorted)>> \o Insert(x, Tail(sorted))

\* Array.prototype.sort() with no comparator, on an array of strings
RECURSIVE Sort(_)
Sort(arr) ==
    IF arr = <<>> THEN <<>>
    ELSE Insert(arr[Len(arr)], Sort(SubSeq(arr, 1, Len(arr) - 1)))

\* Array.prototype.join(sep) on an array of strings
RECURSIVE Join(_, _)
Join(arr, sep) ==
    IF arr = <<>> THEN <<>>
    ELSE IF Len(arr) = 1 THEN arr[1]
    ELSE arr[1] \o sep \o Join(Tail(arr), sep)

\* concatenation of an array of strings (the += of the forEach loops)
RECURSIVE Concat(_)
Concat(arr) == IF arr = <<>> THEN <<>> ELSE Head(arr) \o Concat(Tail(arr))

(***************************************************************************)
(* Documents.  A row is                                                    *)
(*   [headrow, cells, zbiorCell, zbior]                                    *)
(* cells: the text of each td (for the first cell: of its first node);     *)
(* zbiorCell: the 1-based index of the td that holds the .zbior element,   *)
(* 0 when the row has none; zbior: the pieces of that element's inner HTML *)
(* between its <br> separators, as split('<br>') returns them.             *)
(* A document is [kind, awarie, rows, districts]: kind "markup" or         *)
(* "unparseable"; awarie: whether an element with id 'awarie' exists and   *)
(* rows its tbody rows; districts: the .dzielnica elements, each           *)
(* [header, rows] with the text of its h3.dzielnicaopen and the tbody rows *)
(* of its .awarie table.                                                   *)
(***************************************************************************)

\* the lines of a .zbior element: split, trimmed, blanks dropped, sorted
NonEmpty(s) == s # <<>>

\* the lines left in document order: what a missing .sort() does
AddressesUnsorted(zbior) ==
    SelectSeq([i \in 1..Len(zbior) |-> Trim(zbior[i])], NonEmpty)

Addresses(zbior) ==
    Sort(SelectSeq([i \in 1..Len(zbior) |-> Trim(zbior[i])], NonEmpty))

\* the forEach that appends one '- address\n' line per address
BulletLine(a) == BULLET \o a \o NL
AddressLines(zbior) ==
    LET addresses == Addresses(zbior)
    IN  Concat([i \in 1..Len(addresses) |-> BulletLine(addresses[i])])

\* the minimum one cell lower: cells.length > 3
PlannedQualifiesFour(row) == Len(row.cells) > 3

\* row of the planned page: cells.length > 4
PlannedQualifies(row) == Len(row.cells) > 4

\* entry of one qualifying row of the planned page (two-category program)
PlannedEntry(row) ==
    LET place == Trim(row.cells[1])
        from  == Trim(row.cells[2])
        to    == Trim(row.cells[3])
    IN  STRONG_OPEN \o place \o STRONG_CLOSE \o OD \o from \o DO_TO \o to
            \o CLOSE \o NL
            \o (IF row.zbiorCell # 0 THEN AddressLines(row.zbior) ELSE <<>>)

\* entry of one qualifying row in index.js
IndexEntry(row) ==
    LET place == Trim(row.cells[1])
        from  == Trim(row.cells[2])
        to    == Trim(row.cells[3])
    IN  STRONG_OPEN \o place \o STRONG_CLOSE \o Z_FROM \o from \o DO_TO \o to
            \o CLOSE \o NL
            \o (IF row.zbiorCell # 0 THEN AddressLines(row.zbior) ELSE <<>>)

\* row of the emergency page: cells.length >= 5
EmergencyQualifies(row) == Len(row.cells) >= 5

\* entry of one qualifying row of the emergency page
EmergencyEntry(row) ==
    LET address            == Trim(row.cells[1])
        outageTime         == Trim(row.cells[3])
        expectedResolution == Trim(row.cells[4])
        status             == Trim(row.cells[5])
        statusText == IF status = W_TOKU THEN W_TRAKCIE ELSE status
        timeInfo   == IF expectedResolution # <<>>
                      THEN OD \o outageTime \o DO_TO \o expectedResolution \o CLOSE
                      ELSE OD \o outageTime \o UNKNOWN
    IN  STRONG_OPEN \o address \o STRONG_CLOSE \o timeInfo \o DASH \o statusText
            \o NL
            \o (IF row.zbiorCell = 2 THEN AddressLines(row.zbior) ELSE <<>>)

\* the outages array of the emergency table
EmergencyOutages(rows) ==
    LET kept == SelectSeq(rows, EmergencyQualifies)
    IN  [i \in 1..Len(kept) |-> EmergencyEntry(kept[i])]

\* tr:not(.headrow)
NotHeadrow(row) == ~row.headrow

\* the outages array of one district of the planned page
PlannedOutages(rows) ==
    LET kept == SelectSeq(SelectSeq(rows, NotHeadrow), PlannedQualifies)
    IN  [i \in 1..Len(kept) |-> PlannedEntry(kept[i])]

\* the outages array of one district in index.js, its header pushed first
IndexOutages(rows) ==
    LET kept == SelectSeq(SelectSeq(rows, NotHeadrow), PlannedQualifies)
    IN  <<INDEX_HEADER>> \o [i \in 1..Len(kept) |-> IndexEntry(kept[i])]

\* header.text().trim().startsWith(DISTRICT_NAME)
IsTargetDistrict(district) == StartsWith(Trim(district.header), DISTRICT_NAME)

\* districts.each: every matching district overwrites output, so the last
\* matching district decides it; 0 when none matches
LastTargetDistrict(districts) ==
    LET matching == {i \in 1..Len(districts) : IsTargetDistrict(districts[i])}
    IN  IF matching = {} THEN 0
        ELSE CHOOSE i \in matching : \A j \in matching : j <= i

\* the array left as it is: what a missing outages.sort() does
SortDropped(outages) == outages

\* outages.sort() of both parsers of the two-category program
SortOutages(outages) == Sort(outages)

PlannedReport(rows) == Join(SortOutages(PlannedOutages(rows)), NL)
IndexReport(rows) == Join(IndexOutages(rows), NL)

\* parseOutages of the two-category program
parseOutages(html) ==
    LET d == LastTargetDistrict(html.districts)
    IN  IF d = 0 THEN <<>> ELSE PlannedReport(html.districts[d].rows)

\* parseOutages of index.js
parseOutagesIndex(html) ==
    LET d == LastTargetDistrict(html.districts)
    IN  IF d = 0 THEN <<>> ELSE IndexReport(html.districts[d].rows)

\* parseEmergencyOutages
parseEmergencyOutages(html) ==
    IF html.awarie
    THEN Join(SortOutages(EmergencyOutages(html.rows)), NL)
    ELSE <<>>

(***************************************************************************)
(* Configuration.                                                          *)
(***************************************************************************)
\* OUTAGE_TYPES of the two-category program
OUTAGE_TYPES ==
    [EMERGENCY |-> [url    |-> "https://www.mpwik.com.pl/view/awarie",
                    dbKey  |-> "LATEST_URSUS_EMERGENCY_OUTAGES",
                    header |-> EMERGENCY_HEADER],
     PLANNED   |-> [url    |-> "https://www.mpwik.com.pl/view/planowane",
                    dbKey  |-> "LATEST_URSUS_PLANNED_OUTAGES",
                    header |-> PLANNED_HEADER]]

\* URL and DYNAMO_PRIMARY_KEY of index.js (it sends no header of its own)
INDEX_CONFIG ==
    [url    |-> "https://www.mpwik.com.pl/view/planowane",
     dbKey  |-> "LATEST_URSUS_OUTAGES",
     header |-> <<>>]

\* the runs of the model: the two categories, and the run of index.js
Categories == {"EMERGENCY", "PLANNED", "INDEX"}

Config(cat) == IF cat = "INDEX" THEN INDEX_CONFIG ELSE OUTAGE_TYPES[cat]

\* the keys of the one table WaterOutagesUrsus
Keys == {Config(cat).dbKey : cat \in Categories}

\* the concurrent invocations the model has room for, and the one the
\* sequential specification uses
Slots == {1, 2}
Sequential == {1}

(***************************************************************************)
(* Values.                                                                 *)
(***************************************************************************)
NoDoc == [kind |-> "none", awarie |-> FALSE, rows |-> <<>>, districts |-> <<>>]

\* what fetchHtmlContent and getPreviousOutages return
Null       == [t |-> "null", doc |-> NoDoc, v |-> <<>>]
Str(v)     == [t |-> "string", doc |-> NoDoc, v |-> v]
\* response.data that is a document (a string cheerio loads, or a value
\* cheerio.load cannot take: kind "unparseable")
DocData(d) == [t |-> "doc", doc |-> d, v |-> <<>>]

\* !v of JavaScript: null and '' are falsy
Falsy(v) == v.t = "null" \/ (v.t = "string" /\ v.v = <<>>)

\* a === b
StrictEq(a, b) == a.t = b.t /\ a.v = b.v /\ a.doc = b.doc

NoItem == [present |-> FALSE, outageData |-> <<>>, lastUpdated |-> 0]

(***************************************************************************)
(* The pages the source site serves in the model.                          *)
(***************************************************************************)
\* emergency rows: address, (cell of the .zbior), from, to, status
RowEmergencyB ==
    [headrow |-> FALSE, cells |-> <<(<<66, 32>>), <<>>, <<49>>, <<50>>, W_TOKU>>,
     zbiorCell |-> 2, zbior |-> <<(<<32, 89>>), <<88>>, <<>> >>]
RowEmergencyA ==
    [headrow |-> FALSE, cells |-> <<(<<65>>), <<>>, <<49>>, <<>>, <<120>> >>,
     zbiorCell |-> 0, zbior |-> <<>>]
RowEmergencyShort ==
    [headrow |-> FALSE, cells |-> <<(<<65>>), <<>>, <<49>>, <<50>> >>,
     zbiorCell |-> 0, zbior |-> <<>>]

\* planned rows: place (with the .zbior), from, to, two more cells
RowPlannedB ==
    [headrow |-> FALSE, cells |-> <<(<<66, 32>>), <<49>>, <<50>>, <<>>, <<>> >>,
     zbiorCell |-> 1, zbior |-> <<(<<32, 89>>), <<88>>, <<>> >>]
RowPlannedA ==
    [headrow |-> FALSE, cells |-> <<(<<65>>), <<49>>, <<50>>, <<>>, <<>> >>,
     zbiorCell |-> 0, zbior |-> <<>>]
RowPlannedShort ==
    [headrow |-> FALSE, cells |-> <<(<<65>>), <<49>>, <<50>>, <<>> >>,
     zbiorCell |-> 0, zbior |-> <<>>]

EmergencyPage(rows) ==
    [kind |-> "markup", awarie |-> TRUE, rows |-> rows, districts |-> <<>>]
\* a page with the target district after another district
PlannedPage(rows) ==
    [kind |-> "markup", awarie |-> FALSE, rows |-> <<>>,
     districts |-> << [header |-> <<87, 97, 114, 115, 122, 97, 119, 97, 32, 87, 79, 76, 65>>,
                       rows |-> <<RowPlannedA>>],
                      [header |-> <<32>> \o DISTRICT_NAME \o <<32>>, rows |-> rows] >>]
\* a page with neither the table 'awarie' nor the target district
PageWithout ==
    [kind |-> "markup", awarie |-> FALSE, rows |-> <<>>,
     districts |-> << [header |-> <<87, 97, 114, 115, 122, 97, 119, 97, 32, 87, 79, 76, 65>>,
                       rows |-> <<RowPlannedA>>] >>]
\* response.data that cheerio.load throws on
Unparseable == [kind |-> "unparseable", awarie |-> FALSE, rows |-> <<>>, districts |-> <<>>]

EmergencyDocs ==
    {PageWithout, Unparseable, EmergencyPage(<<RowEmergencyShort>>),
     EmergencyPage(<<RowEmergencyA>>),
     EmergencyPage(<<RowEmergencyA, RowEmergencyB>>),
     EmergencyPage(<<RowEmergencyB, RowEmergencyA>>),
     EmergencyPage(<<RowEmergencyB, RowEmergencyShort, RowEmergencyA>>)}

PlannedDocs ==
    {PageWithout, Unparseable, PlannedPage(<<RowPlannedShort>>),
     PlannedPage(<<RowPlannedA>>),
     PlannedPage(<<RowPlannedA, RowPlannedB>>),
     PlannedPage(<<RowPlannedB, RowPlannedA>>),
     PlannedPage(<<RowPlannedB, RowPlannedShort, RowPlannedA>>)}

SiteDocs(cat) == IF cat = "EMERGENCY" THEN EmergencyDocs ELSE PlannedDocs

\* what axios.get does: resolves with the body, or rejects (no response, or
\* an error status whose response carries a page)
NetOutcomes(cat) ==
    {[ok |-> TRUE, data |-> DocData(d)] : d \in SiteDocs(cat)}
        \cup {[ok |-> TRUE, data |-> Str(<<>>)]}
        \cup {[ok |-> FALSE, data |-> Null]}
        \cup {[ok |-> FALSE,
               data |-> DocData(IF cat = "EMERGENCY"
                                THEN EmergencyPage(<<RowEmergencyA>>)
                                ELSE PlannedPage(<<RowPlannedA>>))]}
NoNet == [ok |-> FALSE, data |-> Null]

\* the catch of fetchHtmlContent returning the body of the error response
fetchHtmlContentLeaky(net) == net.data

\* fetchHtmlContent: response.data, or null when axios.get rejects
fetchHtmlContent(net) == IF net.ok THEN net.data ELSE Null

\* the parser processOutages (resp. the handler of index.js) applies
Parse(cat, html) ==
    IF cat = "EMERGENCY" THEN parseEmergencyOutages(html)
    ELSE IF cat = "PLANNED" THEN parseOutages(html)
    ELSE parseOutagesIndex(html)

\* getPreviousOutages: the stored text, '' when there is no item, null when
\* the GetItemCommand fails (ok = FALSE)
getPreviousOutages(ok, item) ==
    IF ok THEN (IF item.present THEN Str(item.outageData) ELSE Str(<<>>))
    ELSE Null

\* the message without its header line
MessageWithoutHeader(cat, text) == text

\* the message passed to sendTelegramMessage
Message(cat, text) ==
    IF cat = "INDEX" THEN text
    ELSE B_OPEN \o Config(cat).header \o B_CLOSE_NL \o text

(***************************************************************************)
(* State.                                                                  *)
(***************************************************************************)
VARIABLES
    deployed,    \* the program deployed: "index" (index.js) or "multi"
    configured,  \* TELEGRAM_BOT_TOKEN and TELEGRAM_CHAT_ID are both set
    table,       \* the DynamoDB table: key -> item (or NoItem)
    now,         \* the clock new Date() reads; one tick per invocation
    inv,         \* per invocation slot: where the handler is, its locals
    observed,    \* the category whose runs are recorded in inv[s].run / last
    last,        \* the record of the last finished run of the observed category;
                 \* in full (with its predecessor and its tables) in the state
                 \* the run ends in, as AsPrior(last) from the next step on
    parseDoc,    \* parser specification: the document handed to the parsers
    origDoc,     \* parser specification: the document it started as
    parsed       \* parser specification: what the parsers returned for parseDoc

vars == <<deployed, configured, table, now, inv, observed, last,
          parseDoc, origDoc, parsed>>
flowVars == <<deployed, configured, table, now, inv, observed, last>>
parseVars == <<parseDoc, origDoc, parsed>>

\* no run recorded
NoRun == [cat |-> "none"]

\* what a run keeps of the finished run before it: not that run's own
\* predecessor, nor the table it ran on
AsPrior(run) ==
    IF run = NoRun THEN NoRun
    ELSE [run EXCEPT !.prior = NoRun, !.before = [k \in Keys |-> NoItem],
                     !.after = [k \in Keys |-> NoItem], !.whole = FALSE]

\* the record of a run of processOutages (of the handler of index.js) that
\* starts on table tbl, after the finished run prior
NewRun(cat, tbl, prior) ==
    [cat |-> cat,
     net |-> NoNet, fetched |-> FALSE,      \* what axios.get did
     text |-> <<>>, parsed |-> FALSE,       \* currentOutagesText
     reads |-> 0, readOk |-> FALSE, prev |-> Null,
     detected |-> FALSE,                    \* the else branch of the comparison
     messages |-> <<>>, sendOutcome |-> "none",
     puts |-> 0, putOk |-> FALSE,
     before |-> tbl, after |-> tbl,
     outcome |-> "running", whole |-> TRUE,
     prior |-> AsPrior(prior)]

IdleSlot ==
    [pc |-> "idle", cat |-> "none", currentOutagesText |-> <<>>,
     previousOutages |-> Null, result |-> "none", statusCode |-> 0,
     processed |-> {}, run |-> NoRun,
     log |-> <<>>]   \* the I/O steps that have finished in this invocation

\* nothing parsed yet
NotParsed == [done |-> FALSE, emergency |-> <<>>, planned |-> <<>>]

\* the handler calling processOutages for the planned category first
FirstCategoryPlanned == IF deployed = "index" THEN "INDEX" ELSE "PLANNED"

\* the category the handler processes first
FirstCategory == IF deployed = "index" THEN "INDEX" ELSE "EMERGENCY"

\* the slot with one more finished I/O step of its current run
Logged(slot, op) == [slot EXCEPT !.log = Append(@, [cat |-> slot.cat, op |-> op])]

Init ==
    /\ deployed \in {"index", "multi"}
    /\ configured \in BOOLEAN
    /\ table = [k \in Keys |-> NoItem]
    /\ now = 0
    /\ inv = [s \in Slots |-> IdleSlot]
    /\ observed \in (IF deployed = "index" THEN {"INDEX"} ELSE {"EMERGENCY", "PLANNED"})
    /\ last = NoRun
    /\ parseDoc = NoDoc /\ origDoc = NoDoc /\ parsed = NotParsed

(***************************************************************************)
(* The handlers.                                                           *)
(***************************************************************************)
\* the slot as processOutages(cat) is called (the handler of index.js starts)
BeginRun(slot, cat, tbl, prior) ==
    [slot EXCEPT !.pc = "fetch", !.cat = cat,
                 !.currentOutagesText = <<>>, !.previousOutages = Null,
                 !.processed = @ \cup {cat},
                 !.run = IF cat = observed THEN NewRun(cat, tbl, prior) ELSE NoRun]

\* the record of a run as it ends with `outcome` on table tbl
Ended(run, outcome, tbl) ==
    IF run = NoRun THEN NoRun ELSE [run EXCEPT !.outcome = outcome, !.after = tbl]

\* the last finished run after the run of `slot` has ended
LastAfter(slot, outcome, tbl) ==
    IF slot.run = NoRun THEN AsPrior(last) ELSE Ended(slot.run, outcome, tbl)

\* the slot after its run has ended: an exception rejects the handler (there
\* is no try/catch in processOutages nor around its calls); a return from the
\* emergency run calls processOutages for the planned category; a return from
\* the last run returns the handler's response
SlotAfter(slot, outcome, statusCode, tbl) ==
    IF outcome = "threw"
    THEN [IdleSlot EXCEPT !.result = "rejected", !.processed = slot.processed]
    ELSE IF slot.cat = "EMERGENCY"
    THEN BeginRun([slot EXCEPT !.run = NoRun], "PLANNED", tbl,
                  LastAfter(slot, outcome, tbl))
    ELSE [IdleSlot EXCEPT !.result = "returned", !.statusCode = statusCode,
                          !.processed = slot.processed]

\* the run of `slot` ends: both the slot and the record of the last run move
EndRun(s, slot, outcome, statusCode, tbl) ==
    /\ inv' = [inv EXCEPT ![s] = SlotAfter(slot, outcome, statusCode, tbl)]
    /\ last' = LastAfter(slot, outcome, tbl)

\* exports.handler is invoked
StartHandler(s) ==
    /\ inv[s].pc = "idle"
    /\ now < MaxInvocations
    /\ now' = now + 1
    /\ inv' = [inv EXCEPT ![s] = BeginRun(IdleSlot, FirstCategory, table, last)]
    /\ last' = AsPrior(last)
    /\ UNCHANGED <<deployed, configured, table, observed, parseVars>>

\* the check that lets an empty report through
NothingToReportNever(currentOutagesText) == FALSE

\* !currentOutagesText
NothingToReport(currentOutagesText) == currentOutagesText = <<>>

\* await fetchHtmlContent(url) resumes; the document is parsed and an empty
\* report returns.  cheerio.load throwing leaves processOutages as an
\* exception.
Fetch(s, net) ==
    /\ inv[s].pc = "fetch"
    /\ LET slot == Logged(inv[s], "fetch")
           html == fetchHtmlContent(net)
           R1(r) == [r EXCEPT !.net = net, !.fetched = TRUE]
           s1   == [slot EXCEPT !.run = (IF slot.run = NoRun THEN NoRun ELSE R1(slot.run))]
       IN  IF Falsy(html)
           THEN EndRun(s, s1, "returned", IF slot.cat = "INDEX" THEN 500 ELSE 200, table)
           ELSE IF html.doc.kind = "unparseable"
           THEN EndRun(s, s1, "threw", 0, table)
           ELSE LET text == Parse(slot.cat, html.doc)
                    R2(r) == [r EXCEPT !.text = text, !.parsed = TRUE]
                    s2   == [s1 EXCEPT !.run = (IF s1.run = NoRun THEN NoRun ELSE R2(s1.run)),
                                       !.currentOutagesText = text]
                IN  IF NothingToReport(text)
                    THEN EndRun(s, s2, "returned", 200, table)
                    ELSE /\ inv' = [inv EXCEPT ![s] = [s2 EXCEPT !.pc = "read"]]
                         /\ last' = AsPrior(last)
    /\ UNCHANGED <<deployed, configured, table, now, observed, parseVars>>

\* the comparison that also finds no change when another invocation in
\* flight is about to notify or store the same report
SameAsPreviousGuarded(currentOutagesText, previousOutages) ==
    \/ StrictEq(Str(currentOutagesText), previousOutages)
    \/ \E s \in Slots : /\ inv[s].pc \in {"send", "save"}
                        /\ inv[s].currentOutagesText = currentOutagesText

\* the comparison that takes the else branch whatever the texts
SameAsPreviousNever(currentOutagesText, previousOutages) == FALSE

\* currentOutagesText === previousOutages
SameAsPrevious(currentOutagesText, previousOutages) ==
    StrictEq(Str(currentOutagesText), previousOutages)

\* await getPreviousOutages(dbKey) resumes; the texts are compared
GetPrevious(s, ok) ==
    /\ inv[s].pc = "read"
    /\ LET slot == Logged(inv[s], "read")
           previousOutages == getPreviousOutages(ok, table[Config(slot.cat).dbKey])
           changed == ~SameAsPrevious(slot.currentOutagesText, previousOutages)
           R1(r) == [r EXCEPT !.reads = @ + 1, !.readOk = ok,
                              !.prev = previousOutages, !.detected = changed]
           s1   == [slot EXCEPT !.run = (IF slot.run = NoRun THEN NoRun ELSE R1(slot.run)),
                                !.previousOutages = previousOutages]
       IN  IF changed
           THEN /\ inv' = [inv EXCEPT ![s] = [s1 EXCEPT !.pc = "send"]]
                /\ last' = AsPrior(last)
           ELSE EndRun(s, s1, "returned", 200, table)
    /\ UNCHANGED <<deployed, configured, table, now, observed, parseVars>>

\* await sendTelegramMessage(message) resumes: skipped without credentials,
\* else the post succeeded ("ok") or its error was caught ("error")
Send(s, outcome) ==
    /\ inv[s].pc = "send"
    /\ outcome \in (IF configured THEN {"ok", "error"} ELSE {"skipped"})
    /\ LET slot == Logged(inv[s], "notify")
           R1(r) == [r EXCEPT !.messages = Append(@, Message(slot.cat, slot.currentOutagesText)),
                              !.sendOutcome = outcome]
       IN  inv' = [inv EXCEPT ![s] = [slot EXCEPT !.pc = "save", !.run = (IF slot.run = NoRun THEN NoRun ELSE R1(slot.run))]]
    /\ last' = AsPrior(last)
    /\ UNCHANGED <<deployed, configured, table, now, observed, parseVars>>

\* saveNewOutages storing text.trim() instead of text
saveNewOutagesTrimmed(tbl, dbKey, text, ok) ==
    IF ok
    THEN [tbl EXCEPT ![dbKey] = [present |-> TRUE, outageData |-> Trim(text),
                                 lastUpdated |-> now]]
    ELSE tbl

\* saveNewOutages storing the message (header and report) instead of the report
saveNewOutagesMessage(tbl, dbKey, text, ok) ==
    IF ok
    THEN [tbl EXCEPT ![dbKey] = [present |-> TRUE,
                                 outageData |-> B_OPEN \o B_CLOSE_NL \o text,
                                 lastUpdated |-> now]]
    ELSE tbl

\* saveNewOutages writing under the one key of index.js whatever the category
saveNewOutagesOneKey(tbl, dbKey, text, ok) ==
    IF ok
    THEN [tbl EXCEPT ![INDEX_CONFIG.dbKey] = [present |-> TRUE, outageData |-> text,
                                              lastUpdated |-> now]]
    ELSE tbl

\* saveNewOutages: the item PutItemCommand writes when it succeeds
saveNewOutages(tbl, dbKey, text, ok) ==
    IF ok
    THEN [tbl EXCEPT ![dbKey] = [present |-> TRUE, outageData |-> text,
                                 lastUpdated |-> now]]
    ELSE tbl

\* await saveNewOutages(dbKey, text) resumes; the run returns
Save(s, ok) ==
    /\ inv[s].pc = "save"
    /\ LET slot == Logged(inv[s], "write")
           tbl  == saveNewOutages(table, Config(slot.cat).dbKey, slot.currentOutagesText, ok)
           R1(r) == [r EXCEPT !.puts = @ + 1, !.putOk = ok]
           s1   == [slot EXCEPT !.run = (IF slot.run = NoRun THEN NoRun ELSE R1(slot.run))]
       IN  /\ table' = tbl
           /\ EndRun(s, s1, "returned", 200, tbl)
    /\ UNCHANGED <<deployed, configured, now, observed, parseVars>>

\* the invocation of slot s resumes from the await it is suspended at
Resume(s) ==
    \/ \E net \in NetOutcomes(inv[s].cat) : Fetch(s, net)
    \/ \E ok \in BOOLEAN : GetPrevious(s, ok)
    \/ \E outcome \in {"ok", "error", "skipped"} : Send(s, outcome)
    \/ \E ok \in BOOLEAN : Save(s, ok)

Step(s) ==
    \/ StartHandler(s)
    \/ Resume(s)

\* one invocation at a time: the schedule the job is deployed with
Next == \E s \in Sequential : Step(s)

Spec == Init /\ [][Next]_vars

(***************************************************************************)
(* What the properties speak of.                                           *)
(***************************************************************************)
\* the recorded runs: the one of each invocation in progress, the last
\* finished one
Runs == ({inv[s].run : s \in Slots} \cup {last}) \ {NoRun}

\* the runs recorded with their tables (a run in progress, or the last
\* finished run in the state it ended in)
WholeRuns == {r \in Runs : r.whole}

TwoCategory == {"EMERGENCY", "PLANNED"}

KeyOf(r) == Config(r.cat).dbKey

\* the rows of the document that the extraction of `cat` turns into records
Records(cat, doc) ==
    IF cat = "EMERGENCY"
    THEN (IF doc.awarie THEN SelectSeq(doc.rows, EmergencyQualifies) ELSE <<>>)
    ELSE LET d == LastTargetDistrict(doc.districts)
         IN  IF d = 0 THEN <<>>
             ELSE SelectSeq(SelectSeq(doc.districts[d].rows, NotHeadrow), PlannedQualifies)

\* every I/O step the run has taken succeeded, the notification included
AllIoOk(r) ==
    /\ r.fetched /\ r.net.ok
    /\ r.reads > 0 => r.readOk
    /\ r.messages # <<>> => r.sendOutcome = "ok"
    /\ r.puts > 0 => r.putOk

\* r ran against the document its predecessor ran against
SameDocument(r) ==
    /\ r.prior # NoRun
    /\ r.fetched /\ r.net.ok /\ r.net.data.t = "doc"
    /\ r.prior.net = r.net

(***************************************************************************)
(* C1: when the store read fails, the run stops before comparing: no       *)
(* notification is sent and no store write is performed.                   *)
(* The code compares the text with the null the failed read returns.       *)
(***************************************************************************)
C1_ReadFailureStopsRun ==
    \A r \in Runs :
        (r.cat \in TwoCategory /\ r.reads > 0 /\ ~r.readOk)
            => (~r.detected /\ r.messages = <<>> /\ r.puts = 0)

(***************************************************************************)
(* C2: two successive runs of processOutages against the same non-empty    *)
(* document, all I/O succeeding, the first from a persisted state that     *)
(* differs from the report: exactly one notification, on the first run,    *)
(* and the second run detects no change.                                   *)
(***************************************************************************)
C2_Premise(r) ==
    /\ r.cat \in TwoCategory
    /\ SameDocument(r)
    /\ r.prior.outcome = "returned" /\ r.prior.text # <<>>
    /\ r.prior.reads > 0 /\ r.prior.prev # Str(r.prior.text)
    /\ AllIoOk(r.prior) /\ AllIoOk(r)
    /\ r.reads > 0

\* C2: under the premise, the first run sent exactly one message, and the
\* second compares equal, sends nothing, writes nothing and returns
C2_Idempotent ==
    \A r \in Runs :
        C2_Premise(r)
            => /\ Len(r.prior.messages) = 1 /\ r.prior.sendOutcome = "ok"
               /\ ~r.detected /\ r.messages = <<>> /\ r.puts = 0
               /\ r.outcome = "returned"

\* C2: a second run that ended so, the first having replaced another report
C2_Witness ==
    \E r \in Runs :
        /\ C2_Premise(r) /\ r.outcome = "returned"
        /\ r.prior.prev.v # <<>>

(***************************************************************************)
(* C3: when the fetch of the document fails, the run takes no further      *)
(* step: no store read, no notification, no store write, and every key     *)
(* of the table is as it was.                                              *)
(***************************************************************************)
C3_FetchFailed(r) == r.fetched /\ ~r.net.ok

\* C3: a run whose axios.get rejected read nothing, sent nothing, wrote
\* nothing, returned, and left the table as it found it
C3_FetchFailureStopsRun ==
    \A r \in Runs :
        C3_FetchFailed(r)
            => /\ r.reads = 0 /\ r.messages = <<>> /\ r.puts = 0
               /\ r.outcome = "returned"
               /\ r.whole => (r.after = r.before /\ table = r.before)

\* C3: such a run, the error response carrying a page with an outage row
\* and the key holding an item
C3_Witness ==
    \E r \in WholeRuns :
        /\ C3_FetchFailed(r) /\ r.net.data.t = "doc"
        /\ r.before[KeyOf(r)].present

(***************************************************************************)
(* C4: in both programs, when the extraction yields no outage record for   *)
(* the district, the run sends no notification, writes nothing and         *)
(* reports no error.                                                       *)
(* index.js pushes its header into the array it joins, so its report is    *)
(* never empty once the district is found.                                 *)
(***************************************************************************)
C4_NoRecordsNoEffect ==
    \A r \in Runs :
        (r.parsed /\ Records(r.cat, r.net.data.doc) = <<>>)
            => /\ r.reads = 0 /\ r.messages = <<>> /\ r.puts = 0
               /\ r.outcome # "threw"

(***************************************************************************)
(* C5: on a first-ever run (no item under the category key) with a         *)
(* non-empty extraction, exactly one notification is sent, its text the    *)
(* category header followed by the report; the report is written under     *)
(* the key, and a read of the key then returns exactly that report.        *)
(* As stated it fails when the PutItemCommand fails; it holds of the       *)
(* notification always and of the store when the write succeeds.           *)
(***************************************************************************)
C5_FirstRun(r) ==
    /\ r.cat \in TwoCategory
    /\ r.outcome = "returned"
    /\ ~r.before[KeyOf(r)].present
    /\ r.parsed /\ Records(r.cat, r.net.data.doc) # <<>>

C5_Notified(r) ==
    r.messages = << B_OPEN \o OUTAGE_TYPES[r.cat].header \o B_CLOSE_NL \o r.text >>

C5_Stored(r) ==
    /\ r.after[KeyOf(r)].present
    /\ r.after[KeyOf(r)].outageData = r.text
    /\ getPreviousOutages(TRUE, r.after[KeyOf(r)]) = Str(r.text)

\* C5 as stated: the first-ever run sends the one message and the table
\* holds the report under the key afterwards
C5_FirstRunNotifiesAndStores ==
    \A r \in WholeRuns : C5_FirstRun(r) => (C5_Notified(r) /\ C5_Stored(r))

\* C5 as amended: the first-ever run sends the one message and issues one
\* write; the table holds the report when the write succeeded and is as
\* before when it failed
C5_FirstRunNotifiesAndStoresIfWritten ==
    \A r \in WholeRuns :
        C5_FirstRun(r)
            => /\ C5_Notified(r)
               /\ r.puts = 1
               /\ r.putOk => C5_Stored(r)
               /\ ~r.putOk => r.after = r.before

\* C5: a first-ever run on a page with two qualifying rows, written
C5_Witness ==
    \E r \in WholeRuns :
        /\ C5_FirstRun(r) /\ r.putOk /\ C5_Stored(r) /\ C5_Notified(r)
        /\ Len(Records(r.cat, r.net.data.doc)) > 1

(***************************************************************************)
(* C6: a change is detected, the notification transport fails and the      *)
(* store write succeeds: the report is persisted, and the next run         *)
(* against the same document detects no change and sends nothing.          *)
(* The next run does notify when its own store read fails (C1).            *)
(***************************************************************************)
C6_NotifyFailureStillPersists ==
    \A r \in Runs :
        (/\ r.cat \in TwoCategory
         /\ SameDocument(r)
         /\ r.prior.detected /\ r.prior.sendOutcome = "error"
         /\ r.prior.puts = 1 /\ r.prior.putOk
         /\ r.reads > 0)
            => /\ r.whole => r.before[KeyOf(r)].outageData = r.prior.text
               /\ ~r.detected /\ r.messages = <<>>

(***************************************************************************)
(* C7: a change is detected, the notification succeeds and the store       *)
(* write fails: the persisted state is unchanged, the run does not raise,  *)
(* and the next run against the same document detects the change again     *)
(* and notifies again.                                                     *)
(* A change "detected" from a failed read (C1) of a store that already     *)
(* holds the report is not detected again.                                 *)
(***************************************************************************)
C7_WriteFailureRenotifies ==
    /\ \A r \in WholeRuns :
           (r.cat \in TwoCategory /\ r.puts = 1 /\ ~r.putOk)
               => (r.after = r.before /\ r.outcome = "returned")
    /\ \A r \in Runs :
           (/\ r.cat \in TwoCategory
            /\ SameDocument(r)
            /\ r.prior.detected /\ r.prior.sendOutcome = "ok"
            /\ r.prior.puts = 1 /\ ~r.prior.putOk
            /\ r.reads > 0)
               => /\ r.detected
                  /\ r.outcome # "running" => Len(r.messages) = 1

(***************************************************************************)
(* C8: whatever fails while the emergency category is processed, no        *)
(* exception leaves processOutages and the planned category is processed   *)
(* in the same invocation.                                                 *)
(* Nothing catches what cheerio.load throws.                               *)
(***************************************************************************)
C8_EmergencyFailureContained ==
    /\ \A r \in Runs : r.cat = "EMERGENCY" => r.outcome # "threw"
    /\ \A s \in Slots :
           (deployed = "multi" /\ inv[s].pc = "idle" /\ inv[s].result # "none")
               => "PLANNED" \in inv[s].processed

(***************************************************************************)
(* C9: the two-category handler always returns statusCode 200, whatever    *)
(* failed in its categories.                                               *)
(***************************************************************************)
C9_HandlerReturns200 ==
    \A s \in Slots :
        (deployed = "multi" /\ inv[s].result # "none")
            => (inv[s].result = "returned" /\ inv[s].statusCode = 200)

(***************************************************************************)
(* The parsers on their own: a document is drawn, its rows are reordered   *)
(* and rows below the minimum cell count come and go, and the parsers of   *)
(* the two-category program are applied.                                   *)
(***************************************************************************)
\* the rows a generated table is made of; row i of the emergency table and
\* row i of the district's table are the i-th choice
RowChoices == 1..5

EmergencyRowOf(c) ==
    CASE c = 1 -> RowEmergencyB
      [] c = 2 -> RowEmergencyA
      [] c = 3 -> RowEmergencyShort
      [] c = 4 -> [headrow |-> FALSE, cells |-> <<(<<65>>), <<>>, <<49>>, <<>>, <<120>> >>,
                   zbiorCell |-> 2, zbior |-> <<(<<88>>)>>]
      [] c = 5 -> [headrow |-> TRUE, cells |-> <<(<<67>>), <<>>, <<50>>, <<49>>, <<>> >>,
                   zbiorCell |-> 1, zbior |-> <<(<<90>>)>>]

PlannedRowOf(c) ==
    CASE c = 1 -> RowPlannedB
      [] c = 2 -> RowPlannedA
      [] c = 3 -> RowPlannedShort
      [] c = 4 -> [headrow |-> FALSE, cells |-> <<(<<65>>), <<49>>, <<50>>, <<>>, <<>> >>,
                   zbiorCell |-> 1, zbior |-> <<(<<88>>)>>]
      [] c = 5 -> [headrow |-> TRUE, cells |-> <<(<<67>>), <<50>>, <<49>>, <<>>, <<>> >>,
                   zbiorCell |-> 0, zbior |-> <<>>]

\* the page whose emergency table and whose district hold the chosen rows
PageOf(choices) ==
    [kind |-> "markup", awarie |-> TRUE,
     rows |-> [i \in 1..Len(choices) |-> EmergencyRowOf(choices[i])],
     districts |-> << [header |-> DISTRICT_NAME,
                       rows |-> [i \in 1..Len(choices) |-> PlannedRowOf(choices[i])]] >>]

ChoiceSeqs == UNION {[1..n -> RowChoices] : n \in 0..MaxRows}

\* the rows of the emergency table, and of the (one) district
DistrictRows(doc) == doc.districts[1].rows
WithRows(doc, erows, prows) ==
    [doc EXCEPT !.rows = erows, !.districts = << [@[1] EXCEPT !.rows = prows] >>]

Swap(rows, i) ==
    [j \in 1..Len(rows) |-> IF j = i THEN rows[i + 1]
                            ELSE IF j = i + 1 THEN rows[i] ELSE rows[j]]
InsertAt(rows, i, row) == SubSeq(rows, 1, i - 1) \o <<row>> \o SubSeq(rows, i, Len(rows))
RemoveAt(rows, i) == SubSeq(rows, 1, i - 1) \o SubSeq(rows, i + 1, Len(rows))

InitParse ==
    /\ deployed = "multi" /\ configured = TRUE
    /\ table = [k \in Keys |-> NoItem]
    /\ now = 0
    /\ inv = [s \in Slots |-> IdleSlot]
    /\ observed = "EMERGENCY"
    /\ last = NoRun
    /\ \E choices \in ChoiceSeqs : origDoc = PageOf(choices)
    /\ parseDoc = origDoc
    /\ parsed = NotParsed

\* rows i and i+1 of the page change places
SwapRows(i) ==
    /\ i + 1 <= Len(parseDoc.rows)
    /\ parseDoc' = WithRows(parseDoc, Swap(parseDoc.rows, i), Swap(DistrictRows(parseDoc), i))
    /\ parsed' = NotParsed
    /\ UNCHANGED <<flowVars, origDoc>>

\* a row with four cells appears before row i
InsertShortRow(i) ==
    /\ Len(parseDoc.rows) < MaxRows + 1
    /\ i <= Len(parseDoc.rows) + 1
    /\ parseDoc' = WithRows(parseDoc, InsertAt(parseDoc.rows, i, RowEmergencyShort),
                            InsertAt(DistrictRows(parseDoc), i, RowPlannedShort))
    /\ parsed' = NotParsed
    /\ UNCHANGED <<flowVars, origDoc>>

\* row i, which has four cells, disappears
RemoveShortRow(i) ==
    /\ i <= Len(parseDoc.rows)
    /\ parseDoc.rows[i] = RowEmergencyShort
    /\ parseDoc' = WithRows(parseDoc, RemoveAt(parseDoc.rows, i),
                            RemoveAt(DistrictRows(parseDoc), i))
    /\ parsed' = NotParsed
    /\ UNCHANGED <<flowVars, origDoc>>

\* the two parsers are applied to the page
ParsePage ==
    /\ ~parsed.done
    /\ parsed' = [done |-> TRUE,
                  emergency |-> parseEmergencyOutages(parseDoc),
                  planned |-> parseOutages(parseDoc)]
    /\ UNCHANGED <<flowVars, parseDoc, origDoc>>

NextParse ==
    \/ \E i \in 1..MaxRows : SwapRows(i)
    \/ \E i \in 1..(MaxRows + 1) : InsertShortRow(i)
    \/ \E i \in 1..(MaxRows + 1) : RemoveShortRow(i)
    \/ ParsePage

SpecParse == InitParse /\ [][NextParse]_vars

(***************************************************************************)
(* C10: the report does not depend on the order of the rows: two           *)
(* documents whose qualifying rows are permutations of each other get the  *)
(* identical report from parseEmergencyOutages, and from parseOutages.     *)
(***************************************************************************)
\* C10: what the parsers return for the reordered page is what they return
\* for the page it started as
C10_OrderIndependent ==
    parsed.done
        => /\ parsed.emergency = parseEmergencyOutages(origDoc)
           /\ parsed.planned = parseOutages(origDoc)

\* the entries in document order, before outages.sort()
EmergencyEntries(doc) == EmergencyOutages(doc.rows)
PlannedEntries(doc) == PlannedOutages(DistrictRows(doc))

\* C10: a parsed page whose entries, before outages.sort(), are in another
\* order than those of the page it started as
C10_Witness ==
    /\ parsed.done
    /\ EmergencyEntries(parseDoc) # EmergencyEntries(origDoc)
    /\ PlannedEntries(parseDoc) # PlannedEntries(origDoc)
    /\ Len(PlannedEntries(parseDoc)) >= 2
    /\ parsed.emergency = parseEmergencyOutages(origDoc)
    /\ parsed.planned = parseOutages(origDoc)

(***************************************************************************)
(* C11: in both programs, when the stored report was produced from a       *)
(* document and the next run fetches a document that differs from it only  *)
(* in the order of the rows, the run detects no change, sends no           *)
(* notification and writes nothing.                                        *)
(* index.js joins its entries in document order: it has no outages.sort(). *)
(***************************************************************************)
\* how many rows of `rows` are x
Count(rows, x) == Cardinality({i \in 1..Len(rows) : rows[i] = x})

\* b is a rearrangement of a
Permuted(a, b) ==
    /\ Len(a) = Len(b)
    /\ \A i \in 1..Len(a) : Count(a, a[i]) = Count(b, a[i])

\* e differs from d in nothing but the order of the rows of its tables
ReorderedOnly(d, e) ==
    /\ d.kind = "markup" /\ e.kind = "markup"
    /\ d.awarie = e.awarie
    /\ Permuted(d.rows, e.rows)
    /\ Len(d.districts) = Len(e.districts)
    /\ \A i \in 1..Len(d.districts) :
           /\ d.districts[i].header = e.districts[i].header
           /\ Permuted(d.districts[i].rows, e.districts[i].rows)

\* the run before r stored the report of a document, and r compares the
\* report of that document with its rows in another order
C11_Premise(r) ==
    /\ r.prior # NoRun
    /\ r.prior.puts = 1 /\ r.prior.putOk
    /\ r.prior.net.data.t = "doc"
    /\ r.fetched /\ r.net.ok /\ r.net.data.t = "doc"
    /\ ReorderedOnly(r.prior.net.data.doc, r.net.data.doc)
    /\ r.net.data.doc # r.prior.net.data.doc
    /\ r.reads > 0

\* C11: a run on the reordered document detects no change, sends nothing
\* and writes nothing
C11_ReorderedDocumentUnchanged ==
    \A r \in Runs :
        C11_Premise(r) => (~r.detected /\ r.messages = <<>> /\ r.puts = 0)

(***************************************************************************)
(* C12: the handler processes the emergency category, then the planned     *)
(* one: every I/O step of the emergency run has finished before the first  *)
(* step of the planned run, and an emergency notification of an            *)
(* invocation precedes a planned notification of that invocation.          *)
(***************************************************************************)
\* the steps of `cat` among the finished steps, in the order they finished
StepsOf(log, cat) ==
    LET kept == {i \in 1..Len(log) : log[i].cat = cat}
        Nth(n) == CHOOSE i \in kept : Cardinality({j \in kept : j <= i}) = n
    IN  [n \in 1..Cardinality(kept) |-> log[Nth(n)].op]

\* the steps of a run of processOutages that has returned
FinishedRuns ==
    {<<"fetch">>, <<"fetch", "read">>, <<"fetch", "read", "notify", "write">>}

\* C12: no planned step has finished while the emergency run is under way;
\* once the planned run is under way the emergency run is a finished one;
\* every emergency step is before every planned step
C12_EmergencyThenPlanned ==
    \A s \in Slots :
        LET log == inv[s].log
        IN  /\ inv[s].cat = "EMERGENCY" => StepsOf(log, "PLANNED") = <<>>
            /\ inv[s].cat = "PLANNED" => StepsOf(log, "EMERGENCY") \in FinishedRuns
            /\ \A i, j \in 1..Len(log) :
                   (log[i].cat = "EMERGENCY" /\ log[j].cat = "PLANNED") => i < j

\* C12: an invocation that has sent a notification for each category
C12_Witness ==
    \E s \in Slots :
        /\ [cat |-> "EMERGENCY", op |-> "notify"] \in {inv[s].log[i] : i \in 1..Len(inv[s].log)}
        /\ [cat |-> "PLANNED", op |-> "notify"] \in {inv[s].log[i] : i \in 1..Len(inv[s].log)}

(***************************************************************************)
(* C13: a run of processOutages for one category reads and writes only     *)
(* the key of that category: the item of every other key (report and       *)
(* lastUpdated) is after the run what it was before it, however the run    *)
(* ends.                                                                   *)
(***************************************************************************)
\* C13: while the run is under way and when it has ended, the items of the
\* other keys are those the run started on, and what it read is the item
\* of its own key
C13_OwnKeyOnly ==
    \A r \in WholeRuns :
        r.cat \in TwoCategory
            => /\ \A k \in Keys \ {KeyOf(r)} :
                      /\ table[k] = r.before[k]
                      /\ r.after[k] = r.before[k]
               /\ (r.reads > 0 /\ r.readOk)
                      => r.prev = getPreviousOutages(TRUE, r.before[KeyOf(r)])

\* C13: a run that has read its key and replaced its item, the key of the
\* other category holding another report
C13_Witness ==
    \E r \in WholeRuns :
        /\ r.cat \in TwoCategory /\ r.outcome = "returned"
        /\ r.readOk /\ r.prev.v # <<>> /\ r.putOk
        /\ r.after[KeyOf(r)] # r.before[KeyOf(r)]
        /\ \E k \in Keys \ {KeyOf(r)} :
               /\ r.before[k].present
               /\ r.before[k].outageData # r.prev.v
               /\ r.after[k] = r.before[k]

(***************************************************************************)
(* C14: in every reachable state the report stored under a category key    *)
(* is the last report that was successfully notified for the category: a   *)
(* report is never stored unless its notification was delivered.           *)
(* As stated it fails: saveNewOutages is called after sendTelegramMessage  *)
(* has returned, whether the post succeeded, failed or was skipped.  What  *)
(* holds is that the item of a key changes only in a run that has called   *)
(* sendTelegramMessage for the very report it stores.                      *)
(***************************************************************************)
\* the run has replaced the item of its key
C14_Stored(r) ==
    \/ r.after[KeyOf(r)] # r.before[KeyOf(r)]
    \/ table[KeyOf(r)] # r.before[KeyOf(r)]

\* C14 as stated: the item of a key changes only in a run whose
\* notification was delivered
C14_StoredOnlyIfDelivered ==
    \A r \in WholeRuns : C14_Stored(r) => r.sendOutcome = "ok"

\* C14 as amended: the item of a key changes only in a run that has called
\* sendTelegramMessage once, for the report the item now holds, and the call
\* has returned (delivered, failed or skipped)
C14_StoredOnlyIfNotifyCalled ==
    \A r \in WholeRuns :
        C14_Stored(r)
            => /\ r.messages = << Message(r.cat, r.text) >>
               /\ r.sendOutcome \in {"ok", "error", "skipped"}
               /\ r.puts = 1 /\ r.putOk
               /\ r.after[KeyOf(r)].outageData = r.text
               /\ table[KeyOf(r)] = r.after[KeyOf(r)]

\* C14: a run that stored its report although the post failed
C14_Witness ==
    \E r \in WholeRuns :
        /\ C14_Stored(r) /\ r.sendOutcome = "error"
        /\ r.before[KeyOf(r)].present
        /\ table[KeyOf(r)].outageData = r.text

(***************************************************************************)
(* C15: within every rendered record the sub-addresses are in sorted       *)
(* order whatever their order in the document, and the records are in      *)
(* the lexicographic order of their rendered strings whichever row came    *)
(* first.                                                                  *)
(***************************************************************************)
\* arr has no element before a smaller one
Ordered(arr) == \A i \in 1..(Len(arr) - 1) : ~StrLess(arr[i + 1], arr[i])

\* the place of arr[i] when arr is put in order: after every smaller
\* element and after its equals that come before it
Rank(arr, i) ==
    1 + Cardinality({j \in 1..Len(arr) : StrLess(arr[j], arr[i])})
      + Cardinality({j \in 1..(i - 1) : arr[j] = arr[i]})

\* arr put in order
InOrder(arr) ==
    [k \in 1..Len(arr) |-> arr[CHOOSE i \in 1..Len(arr) : Rank(arr, i) = k]]

\* the sub-addresses of a .zbior element as the document has them
Pieces(zbior) == SelectSeq([i \in 1..Len(zbior) |-> Trim(zbior[i])], NonEmpty)

\* the sub-address lines in sorted order
OrderedLines(zbior) ==
    LET a == InOrder(Pieces(zbior))
    IN  Concat([i \in 1..Len(a) |-> BULLET \o a[i] \o NL])

\* the records a page should render for each parser, in document order:
\* the line of the row, then its sub-addresses in sorted order
EmergencyRendered(doc) ==
    LET rows == SelectSeq(doc.rows, EmergencyQualifies)
    IN  [i \in 1..Len(rows) |->
            EmergencyEntry([rows[i] EXCEPT !.zbiorCell = 0])
                \o (IF rows[i].zbiorCell = 2 THEN OrderedLines(rows[i].zbior) ELSE <<>>)]
PlannedRendered(doc) ==
    LET rows == SelectSeq(SelectSeq(DistrictRows(doc), NotHeadrow), PlannedQualifies)
    IN  [i \in 1..Len(rows) |->
            PlannedEntry([rows[i] EXCEPT !.zbiorCell = 0])
                \o (IF rows[i].zbiorCell # 0 THEN OrderedLines(rows[i].zbior) ELSE <<>>)]

\* C15: each report is the records with sorted sub-addresses, joined in the
\* lexicographic order of the records
C15_SortedWithinAndAcross ==
    parsed.done
        => /\ Ordered(InOrder(EmergencyRendered(parseDoc)))
           /\ Ordered(InOrder(PlannedRendered(parseDoc)))
           /\ parsed.emergency = Join(InOrder(EmergencyRendered(parseDoc)), NL)
           /\ parsed.planned = Join(InOrder(PlannedRendered(parseDoc)), NL)

\* C15: a parsed page whose first row has its sub-addresses out of order and
\* whose records are out of order in the document, for both parsers
C15_Witness ==
    /\ parsed.done
    /\ Len(parseDoc.rows) >= 2
    /\ parseDoc.rows[1].zbiorCell = 2
    /\ ~Ordered(Pieces(parseDoc.rows[1].zbior))
    /\ DistrictRows(parseDoc)[1].zbiorCell # 0
    /\ ~Ordered(Pieces(DistrictRows(parseDoc)[1].zbior))
    /\ ~Ordered(EmergencyRendered(parseDoc))
    /\ ~Ordered(PlannedRendered(parseDoc))
    /\ parsed.emergency = Join(InOrder(EmergencyRendered(parseDoc)), NL)
    /\ parsed.planned = Join(InOrder(PlannedRendered(parseDoc)), NL)

(***************************************************************************)
(* C16: a row with fewer than 5 cells contributes no record and does not   *)
(* stop the extraction of the other rows: the report of the page is the    *)
(* report of the page with that row removed.                               *)
(***************************************************************************)
\* the rows of the emergency table, resp. of the district, with fewer cells
\* than the minimum
ShortEmergencyRows(doc) == {i \in 1..Len(doc.rows) : Len(doc.rows[i].cells) < 5}
ShortPlannedRows(doc) ==
    {i \in 1..Len(DistrictRows(doc)) : Len(DistrictRows(doc)[i].cells) < 5}

\* C16: for every such row, what the parser returned for the page is what
\* it returns for the page without the row
C16_ShortRowSkipped ==
    parsed.done
        => /\ \A i \in ShortEmergencyRows(parseDoc) :
                  parsed.emergency =
                      parseEmergencyOutages(
                          WithRows(parseDoc, RemoveAt(parseDoc.rows, i), DistrictRows(parseDoc)))
           /\ \A i \in ShortPlannedRows(parseDoc) :
                  parsed.planned =
                      parseOutages(
                          WithRows(parseDoc, parseDoc.rows, RemoveAt(DistrictRows(parseDoc), i)))

\* C16: a parsed page with such a row in both tables, a row that yields a
\* record before it and another after it
C16_Witness ==
    /\ parsed.done
    /\ \E i \in ShortEmergencyRows(parseDoc) \cap ShortPlannedRows(parseDoc) :
           /\ 1 < i /\ i < Len(parseDoc.rows)
           /\ \A j \in {i - 1, i + 1} :
                  /\ EmergencyQualifies(parseDoc.rows[j])
                  /\ PlannedQualifies(DistrictRows(parseDoc)[j])
                  /\ NotHeadrow(DistrictRows(parseDoc)[j])
    /\ Len(EmergencyEntries(parseDoc)) >= 2
    /\ Len(PlannedEntries(parseDoc)) >= 2
    /\ parsed.emergency = Join(Sort(EmergencyEntries(parseDoc)), NL)
    /\ parsed.planned = Join(Sort(PlannedEntries(parseDoc)), NL)

(***************************************************************************)
(* C17: when the current report is exactly the report read from the        *)
(* store, the run does nothing more: no notification, no store write, and  *)
(* the stored report and its lastUpdated are as they were.                 *)
(***************************************************************************)
\* the run has read the store and got the very text it extracted
C17_Equal(r) == r.reads > 0 /\ r.readOk /\ r.prev = Str(r.text)

\* C17: such a run has detected nothing, sent nothing, written nothing and
\* returned, and the table is the one it started on
C17_EqualNoAction ==
    \A r \in Runs :
        C17_Equal(r)
            => /\ ~r.detected /\ r.messages = <<>> /\ r.puts = 0
               /\ r.outcome = "returned"
               /\ r.whole => (r.after = r.before /\ table = r.before)

\* C17: such a run on an item stored by an earlier invocation
C17_Witness ==
    \E r \in WholeRuns :
        /\ C17_Equal(r) /\ r.outcome = "returned"
        /\ r.before[KeyOf(r)].present
        /\ r.before[KeyOf(r)].lastUpdated < now
        /\ table[KeyOf(r)] = r.before[KeyOf(r)]

(***************************************************************************)
(* C19: a run that finds no outages never modifies the store, so the       *)
(* stored report is not reset when the outages clear; when a report was    *)
(* notified and stored, the source then has no outages, and the report     *)
(* comes back byte-identical, the run that sees it again sends no          *)
(* notification.                                                           *)
(* index.js stores its header when the district has no qualifying row      *)
(* (C4), and a run whose store read fails notifies (C1).                   *)
(***************************************************************************)
\* the run parsed a page that has no outage record for the district
C19_NoOutages(r) == r.parsed /\ Records(r.cat, r.net.data.doc) = <<>>

\* the run after a run that found no outages extracts the report the store
\* still holds
C19_Reappears(r) ==
    /\ r.prior # NoRun /\ C19_NoOutages(r.prior)
    /\ r.parsed /\ r.text # <<>>
    /\ r.before[KeyOf(r)].present
    /\ r.before[KeyOf(r)].outageData = r.text

\* C19: a run without outages leaves the table as it found it, and a run
\* that sees the stored report again sends nothing
C19_ClearedThenReappears ==
    \A r \in WholeRuns :
        /\ C19_NoOutages(r) => (r.after = r.before /\ table = r.before)
        /\ C19_Reappears(r) => r.messages = <<>>

(***************************************************************************)
(* C20: a run for a category issues at most one notification call and at   *)
(* most one store write; a write is issued only after a notification call  *)
(* for the same report has returned in that run; the written report is     *)
(* never the empty string.                                                 *)
(***************************************************************************)
\* C20: the counts of every run, the call that precedes its write, and the
\* reports the table holds
C20_OneNotifyThenOneWrite ==
    /\ \A r \in Runs :
           /\ Len(r.messages) <= 1 /\ r.puts <= 1
           /\ r.puts > 0
                  => /\ r.messages = << Message(r.cat, r.text) >>
                     /\ r.sendOutcome \in {"ok", "error", "skipped"}
                     /\ r.text # <<>>
    /\ \A k \in Keys : table[k].present => table[k].outageData # <<>>

\* C20: a run that has notified and then written, the table holding its
\* report
C20_Witness ==
    \E r \in WholeRuns :
        /\ r.outcome = "returned"
        /\ Len(r.messages) = 1 /\ r.puts = 1 /\ r.putOk
        /\ table[KeyOf(r)].present
        /\ table[KeyOf(r)].outageData = r.text

(***************************************************************************)
(* Two overlapping invocations: the handler is invoked a second time while *)
(* the first invocation is suspended at one of its awaits.                 *)
(***************************************************************************)
\* the table as earlier invocations of the two-category program left it
\* when each category had one outage
StoredEarlier ==
    [k \in Keys |->
        IF k = OUTAGE_TYPES["EMERGENCY"].dbKey
        THEN [present |-> TRUE, lastUpdated |-> 0,
              outageData |-> parseEmergencyOutages(EmergencyPage(<<RowEmergencyA>>))]
        ELSE IF k = OUTAGE_TYPES["PLANNED"].dbKey
        THEN [present |-> TRUE, lastUpdated |-> 0,
              outageData |-> parseOutages(PlannedPage(<<RowPlannedA>>))]
        ELSE NoItem]

\* the two-category program with its credentials set, on an empty table or
\* on one that holds a report for each category
InitOverlap ==
    /\ deployed = "multi" /\ configured = TRUE
    /\ table \in {[k \in Keys |-> NoItem], StoredEarlier}
    /\ now = 0
    /\ inv = [s \in Slots |-> IdleSlot]
    /\ observed \in {"EMERGENCY", "PLANNED"}
    /\ last = NoRun
    /\ parseDoc = NoDoc /\ origDoc = NoDoc /\ parsed = NotParsed

\* exports.handler is invoked: each slot holds one invocation, and the
\* second starts while the first is in flight
StartOverlapping(s) ==
    /\ inv[s].pc = "idle" /\ inv[s].result = "none"
    /\ \A t \in Slots : t < s => inv[t].pc # "idle"
    /\ now' = now + 1
    /\ inv' = [inv EXCEPT ![s] = BeginRun(IdleSlot, FirstCategory, table, last)]
    /\ last' = AsPrior(last)
    /\ UNCHANGED <<deployed, configured, table, observed, parseVars>>

NextOverlap ==
    \E s \in Slots :
        \/ StartOverlapping(s)
        \/ Resume(s)

SpecOverlap == InitOverlap /\ [][NextOverlap]_vars

(***************************************************************************)
(* C18: nothing protects the read-compare-write sequence against an        *)
(* overlapping invocation: with two invocations interleaved at their       *)
(* awaits, a state is reachable in which both have read the same previous  *)
(* report and both have sent a notification for the same change.           *)
(***************************************************************************)
\* the run has read the store and extracted another text than it read
C18_Differs(r) == r.reads > 0 /\ ~StrictEq(Str(r.text), r.prev)

\* C18: whether a run detects a change depends on nothing but the text it
\* extracted and the value it read, whatever the other invocation is
\* doing: of two runs in flight that have read the same value and
\* extracted the same other text, both detect the change, and a run that
\* detected a change and returned has sent its message
C18_NothingHoldsBack ==
    /\ \A r \in Runs :
           /\ r.reads > 0 => (r.detected <=> C18_Differs(r))
           /\ (r.detected /\ r.outcome = "returned") => Len(r.messages) = 1
    /\ \A s, t \in Slots :
           LET r == inv[s].run
               q == inv[t].run
           IN  (/\ s # t /\ r # NoRun /\ q # NoRun
                /\ C18_Differs(r) /\ C18_Differs(q)
                /\ r.prev = q.prev /\ r.text = q.text)
                   => /\ r.detected /\ q.detected
                      /\ inv[s].pc \in {"send", "save"}
                      /\ inv[t].pc \in {"send", "save"}

\* C18: both invocations have read the same stored report, extracted the
\* same new report, and each has had its notification delivered
C18_Witness ==
    \E s, t \in Slots :
        LET r == inv[s].run
            q == inv[t].run
        IN  /\ s # t /\ r # NoRun /\ q # NoRun
            /\ r.readOk /\ q.readOk
            /\ r.prev = q.prev /\ r.prev.v # <<>>
            /\ r.text = q.text
            /\ r.messages = << Message(r.cat, r.text) >> /\ r.sendOutcome = "ok"
            /\ q.messages = r.messages /\ q.sendOutcome = "ok"

====
